---- MODULE Spec2Model ----
(***************************************************************************)
(* WhatsApp broadcast batch (Qontak/Mekari): the run handler of the        *)
(* Streamlit script and send_whatsapp, as a state machine.                 *)
(*                                                                         *)
(* Python values are records [t, s, n, m]: t is the Python type, s the     *)
(* text of a str, n the value of an int, m the items of a dict as a        *)
(* sequence of <<key, value>> pairs.                                       *)
(***************************************************************************)
EXTENDS Integers, Sequences, FiniteSets, TLC

\* Largest number of rows of the input DataFrame.
MaxRecipients == 3

-----------------------------------------------------------------------------
(* Python values *)

None == [t |-> "NoneType", s |-> "", n |-> 0, m |-> <<>>]
PyStr(x) == [t |-> "str", s |-> x, n |-> 0, m |-> <<>>]
PyInt(x) == [t |-> "int", s |-> "", n |-> x, m |-> <<>>]
PyNaN == [t |-> "float", s |-> "nan", n |-> 0, m |-> <<>>]
PyList == [t |-> "list", s |-> "", n |-> 0, m |-> <<>>]
PyDict(items) == [t |-> "dict", s |-> "", n |-> 0, m |-> items]

\* bool(v): what `if v:` and all([...]) test.
Truthy(v) ==
    CASE v.t = "NoneType" -> FALSE
      [] v.t = "str" -> v.s # ""
      [] v.t = "int" -> v.n # 0
      [] v.t = "dict" -> Len(v.m) > 0
      [] v.t = "list" -> FALSE
      [] OTHER -> TRUE

Digit(d) == SubSeq("0123456789", d + 1, d + 1)

RECURSIVE NatToStr(_)
NatToStr(k) == IF k < 10 THEN Digit(k) ELSE NatToStr(k \div 10) \o Digit(k % 10)

\* str(v) for the values that reach str() and f-strings here.
Str(v) ==
    CASE v.t = "str" -> v.s
      [] v.t = "int" -> NatToStr(v.n)
      [] v.t = "NoneType" -> "None"
      [] OTHER -> v.s

IsSpace(c) == c = " "

RECURSIVE LStrip(_)
LStrip(x) ==
    IF Len(x) > 0 /\ IsSpace(SubSeq(x, 1, 1)) THEN LStrip(SubSeq(x, 2, Len(x))) ELSE x

RECURSIVE RStrip(_)
RStrip(x) ==
    IF Len(x) > 0 /\ IsSpace(SubSeq(x, Len(x), Len(x)))
    THEN RStrip(SubSeq(x, 1, Len(x) - 1))
    ELSE x

\* str.strip()
Strip(x) == RStrip(LStrip(x))

\* dict.get(key, default) on a dict value.
HasKey(v, key) == \E j \in 1..Len(v.m) : v.m[j][1] = key
DictGet(v, key, default) ==
    IF HasKey(v, key)
    THEN v.m[CHOOSE j \in 1..Len(v.m) : v.m[j][1] = key][2]
    ELSE default

\* The text json.dumps writes for a str: quotes and backslashes escaped.
RECURSIVE Escape(_)
Escape(x) ==
    IF Len(x) = 0 THEN ""
    ELSE LET c == SubSeq(x, 1, 1)
         IN (IF c = "\"" \/ c = "\\" THEN "\\" \o c ELSE c) \o Escape(SubSeq(x, 2, Len(x)))

RECURSIVE DumpsItems(_), dumps(_)
DumpsItems(items) ==
    IF Len(items) = 0 THEN ""
    ELSE "\"" \o Escape(items[1][1]) \o "\": " \o dumps(items[1][2])
         \o (IF Len(items) > 1 THEN ", " ELSE "") \o DumpsItems(Tail(items))

\* json.dumps(v) with its default separators.
dumps(v) ==
    CASE v.t = "NoneType" -> "null"
      [] v.t = "str" -> "\"" \o Escape(v.s) \o "\""
      [] v.t = "int" -> NatToStr(v.n)
      [] v.t = "list" -> "[]"
      [] v.t = "dict" -> "{" \o DumpsItems(v.m) \o "}"
      [] OTHER -> "NaN"

-----------------------------------------------------------------------------
(* Signing *)

API_BASE == "https://api.mekari.com"

Two(k) == Digit((k \div 10) % 10) \o Digit(k % 10)

\* datetime.utcnow().strftime("%a, %d %b %Y %H:%M:%S GMT"), the clock reading
\* `now` counted in seconds from midnight of one fixed day.
strftime(now) ==
    "Mon, 02 Nov 2026 " \o Two((now \div 3600) % 24) \o ":" \o Two((now \div 60) % 60)
        \o ":" \o Two(now % 60) \o " GMT"

\* base64(HMAC-SHA256(key, msg)) as a term: equal exactly when key and
\* message are equal.
HmacSha256B64(key, msg) == "b64(hmac-sha256(" \o key \o "|" \o msg \o "))"

\* A signer that reads the clock once for the signature and again, a second
\* later, for the Date header.
generate_auth_headers_clock_twice(http_method, url_path, cid, secret, now) ==
    LET request_line == http_method \o " " \o url_path \o " HTTP/1.1"
        string_to_sign == "date: " \o strftime(now) \o "\n" \o request_line
        signature == HmacSha256B64(secret, string_to_sign)
    IN [Authorization |->
            "hmac username=\"" \o cid \o "\", algorithm=\"hmac-sha256\", "
                \o "headers=\"date request-line\", signature=\"" \o signature \o "\"",
        Date |-> strftime(now + 1),
        ContentType |-> "application/json",
        signed |-> string_to_sign]

generate_auth_headers(http_method, url_path, cid, secret, now) ==
    LET date_string == strftime(now)
        request_line == http_method \o " " \o url_path \o " HTTP/1.1"
        string_to_sign == "date: " \o date_string \o "\n" \o request_line
        signature == HmacSha256B64(secret, string_to_sign)
    IN [Authorization |->
            "hmac username=\"" \o cid \o "\", algorithm=\"hmac-sha256\", "
                \o "headers=\"date request-line\", signature=\"" \o signature \o "\"",
        Date |-> date_string,
        ContentType |-> "application/json",
        signed |-> string_to_sign]

-----------------------------------------------------------------------------
(* The remote API: what a call can come back with *)

Response(status, text, parses, val) ==
    [status_code |-> status, text |-> text, parses |-> parses, json |-> val]

BodyWithId ==
    PyDict(<< <<"data", PyDict(<< <<"id", PyStr("bc_123")>> >>)>> >>)
BodyEmptyId ==
    PyDict(<< <<"data", PyDict(<< <<"id", PyStr("")>> >>)>> >>)
BodyNoId ==
    PyDict(<< <<"data", PyDict(<<>>)>> >>)
BodyDataNull ==
    PyDict(<< <<"data", None>> >>)
BodyError ==
    PyDict(<< <<"error", PyStr("invalid number")>> >>)

\* Responses to POST /qontak/chat/v1/broadcasts/whatsapp/direct.
PostResponses ==
    { Response(201, "{\"data\":{\"id\":\"bc_123\"}}", TRUE, BodyWithId),
      Response(202, "{\"data\":{}}", TRUE, BodyNoId),
      Response(200, "{\"data\":{\"id\":\"\"}}", TRUE, BodyEmptyId),
      Response(202, "{\"data\":null}", TRUE, BodyDataNull),
      Response(200, "<html>OK</html>", FALSE, None),
      Response(422, "{\"error\":\"invalid number\"}", TRUE, BodyError),
      Response(422, "{\"data\":{\"id\":\"bc_123\"}}", TRUE, BodyWithId),
      Response(204, "", FALSE, None),
      Response(502, "<html lang=\"en\">Bad Gateway</html>", FALSE, None) }

\* Responses to GET /qontak/chat/v1/broadcasts/{id}/whatsapp/log.
GetResponses ==
    { Response(200, "{\"data\":[{\"status\":\"sent\"}]}", TRUE, PyList),
      Response(404, "{\"error\":\"not found\"}", TRUE,
               PyDict(<< <<"error", PyStr("not found")>> >>)) }

\* str(e) of what requests raises on a connection error or a timeout.
TransportErrors ==
    { "HTTPSConnectionPool(host='api.mekari.com', port=443): Read timed out. (read timeout=60)" }

\* str(e) of json.JSONDecodeError and of AttributeError on .get
JSONDecodeErrorText == "Expecting value: line 1 column 1 (char 0)"
AttributeErrorText(v) == "'" \o v.t \o "' object has no attribute 'get'"

-----------------------------------------------------------------------------
(* The input DataFrame *)

RequiredColumns == {"to_number", "to_name"}

\* Column sets of the loaded sheet: complete, and with a required column missing.
ColumnSets ==
    { {"to_number", "to_name", "city"}, {"to_number", "city"},
      {"to_name", "city"}, {"city"} }

Names == << PyStr("Budi"), PyStr("  Siti "), PyNaN >>

\* Row k of the sheet: an int64 number column, a name column of strings with
\* stray blanks and an empty cell, and a column the program does not use.
SheetRow(k) ==
    [c \in {"to_number", "to_name", "city"} |->
        CASE c = "to_number" -> PyInt(628000 + k)
          [] c = "to_name" -> Names[((k - 1) % Len(Names)) + 1]
          [] OTHER -> PyStr("Jakarta")]

LoadFrame(cols, n) == [k \in 1..n |-> [c \in cols |-> SheetRow(k)[c]]]

\* row.get(key, default) on a record of df.to_dict(orient="records")
RowGet(row, key, default) == IF key \in DOMAIN row THEN row[key] ELSE default

\* A validation that looks for the routing column alone.
validate_number_only(cols) ==
    LET missing == {c \in {"to_number"} : c \notin cols}
    IN [ok |-> Cardinality(missing) = 0, missing |-> missing]

\* validate_dataframe(df): (ok, missing)
validate_dataframe(cols) ==
    LET missing == {c \in RequiredColumns : c \notin cols}
    IN [ok |-> Cardinality(missing) = 0, missing |-> missing]

\* all([client_id, client_secret, template_id, channel_id])
CredentialsPresent(cid, secret, tpl, chn) ==
    /\ cid # ""
    /\ secret # ""
    /\ tpl # ""
    /\ chn # ""

\* A cap that keeps the last rows of the sheet, not the first.
CapRowsTail(frame, cap) ==
    IF cap # 0 /\ cap > 0 /\ cap < Len(frame)
    THEN SubSeq(frame, Len(frame) - cap + 1, Len(frame))
    ELSE frame

\* df.head(n)
head(frame, n) == SubSeq(frame, 1, IF n < Len(frame) THEN n ELSE Len(frame))

\* if max_rows and max_rows > 0: df = df.head(int(max_rows))
CapRows(frame, cap) == IF cap # 0 /\ cap > 0 THEN head(frame, cap) ELSE frame

-----------------------------------------------------------------------------
(* send_whatsapp, piece by piece *)

POST_URL_PATH == "/qontak/chat/v1/broadcasts/whatsapp/direct"
GetUrlPath(broadcast_id) ==
    "/qontak/chat/v1/broadcasts/" \o Str(broadcast_id) \o "/whatsapp/log"

IMAGE_URL ==
    "https://raw.githubusercontent.com/christian-buku/Telesales-hot-leads-submitted-form-and-not-created-payment-link/refs/heads/main/banner.jpg"
IMAGE_FILENAME == "banner.jpg"

RowNumber(row) == Strip(Str(RowGet(row, "to_number", PyStr(""))))
RowName(row) == Strip(Str(RowGet(row, "to_name", PyStr(""))))

BuildPayload(row, tpl, chn, image_url, image_filename) ==
    [to_number |-> RowNumber(row),
     to_name |-> RowName(row),
     message_template_id |-> tpl,
     channel_integration_id |-> chn,
     language |-> "id",
     header |-> IF image_url # ""
                THEN << "IMAGE", image_url,
                        IF image_filename # "" THEN image_filename ELSE "banner.jpg" >>
                ELSE << >>]

InitialResult(row) ==
    [to_number |-> PyStr(RowNumber(row)),
     to_name |-> PyStr(RowName(row)),
     status_code |-> None,
     broadcast_id |-> None,
     send_response |-> None,
     log_status_code |-> None,
     log_response |-> None,
     error |-> None]

\* A success test that takes every 2xx the API answers with.
SuccessCodes2xx == {200, 201, 202, 204}

SuccessCodes == {200, 201, 202}

\* An extraction that takes any body it cannot read for a body without id.
ExtractBroadcastIdLenient(r) ==
    IF r.parses /\ r.json.t = "dict" /\ DictGet(r.json, "data", PyDict(<<>>)).t = "dict"
    THEN [raised |-> FALSE, text |-> "",
          value |-> DictGet(DictGet(r.json, "data", PyDict(<<>>)), "id", None)]
    ELSE [raised |-> FALSE, text |-> "", value |-> None]

\* data = r_post.json(); data.get("data", {}).get("id"): the value, or the
\* exception the expression raises.
ExtractBroadcastId(r) ==
    IF ~r.parses THEN [raised |-> TRUE, text |-> JSONDecodeErrorText, value |-> None]
    ELSE IF r.json.t # "dict"
    THEN [raised |-> TRUE, text |-> AttributeErrorText(r.json), value |-> None]
    ELSE LET inner == DictGet(r.json, "data", PyDict(<<>>))
         IN IF inner.t # "dict"
            THEN [raised |-> TRUE, text |-> AttributeErrorText(inner), value |-> None]
            ELSE [raised |-> FALSE, text |-> "", value |-> DictGet(inner, "id", None)]

\* err of lines 134-138: the parsed body, or {"raw": text}
RejectionDetail(r) ==
    IF r.parses THEN r.json ELSE PyDict(<< <<"raw", PyStr(r.text)>> >>)

\* A send_whatsapp that fetches the log after every answered POST.
AfterPostFetchAlways(res, r) ==
    LET got == [res EXCEPT !.status_code = PyInt(r.status_code),
                           !.send_response = PyStr(r.text)]
    IN IF r.status_code \in SuccessCodes
       THEN LET x == ExtractBroadcastId(r)
            IN IF x.raised
               THEN [result |-> [got EXCEPT !.error = PyStr(x.text)], fetch |-> FALSE]
               ELSE [result |-> [got EXCEPT !.broadcast_id = x.value], fetch |-> TRUE]
       ELSE [result |-> [got EXCEPT !.error = PyStr(dumps(RejectionDetail(r)))],
             fetch |-> TRUE]

\* A send_whatsapp that reads the identifier before it looks at the status.
AfterPostIdFirst(res, r) ==
    LET got == [res EXCEPT !.status_code = PyInt(r.status_code),
                           !.send_response = PyStr(r.text)]
        x == ExtractBroadcastId(r)
    IN IF x.raised
       THEN [result |-> [got EXCEPT !.error = PyStr(x.text)], fetch |-> FALSE]
       ELSE IF r.status_code \in SuccessCodes
       THEN [result |-> [got EXCEPT !.broadcast_id = x.value], fetch |-> Truthy(x.value)]
       ELSE [result |-> [got EXCEPT !.broadcast_id = x.value,
                                    !.error = PyStr(dumps(RejectionDetail(r)))],
             fetch |-> FALSE]

\* Where send_whatsapp goes once the POST has returned r: the result so far
\* and whether the log fetch follows.
AfterPost(res, r) ==
    LET got == [res EXCEPT !.status_code = PyInt(r.status_code),
                           !.send_response = PyStr(r.text)]
    IN IF r.status_code \in SuccessCodes
       THEN LET x == ExtractBroadcastId(r)
            IN IF x.raised
               THEN [result |-> [got EXCEPT !.error = PyStr(x.text)], fetch |-> FALSE]
               ELSE [result |-> [got EXCEPT !.broadcast_id = x.value],
                     fetch |-> Truthy(x.value)]
       ELSE [result |-> [got EXCEPT !.error = PyStr(dumps(RejectionDetail(r)))],
             fetch |-> FALSE]

\* An except clause that passes.
AfterExceptionSwallowed(res, e) == res

\* An except clause that starts the record over.
AfterExceptionReset(res, e) ==
    [res EXCEPT !.status_code = None, !.send_response = None, !.broadcast_id = None,
                !.error = PyStr(e)]

\* except Exception as e: result["error"] = str(e)
AfterException(res, e) == [res EXCEPT !.error = PyStr(e)]

\* A log fetch that takes a status other than 200 for a failure.
AfterGetStrict(res, r) ==
    IF r.status_code = 200
    THEN [res EXCEPT !.log_status_code = PyInt(r.status_code),
                     !.log_response = PyStr(r.text)]
    ELSE [res EXCEPT !.error = PyStr(Str(PyInt(r.status_code)) \o " Client Error")]

\* Lines 130-132: the log's status and body go into the result
AfterGet(res, r) ==
    [res EXCEPT !.log_status_code = PyInt(r.status_code),
                !.log_response = PyStr(r.text)]

\* A send_whatsapp that does not wait.
NoSleep(d) == 0

\* time.sleep(max(0, sleep_after_seconds)): the seconds it blocks
SleepSeconds(d) == IF d > 0 THEN d ELSE 0

-----------------------------------------------------------------------------
(* State *)

VARIABLES
    client_id, client_secret, template_id, channel_id,  \* sidebar credentials
    columns,              \* df.columns
    df,                   \* the rows of df
    loaded,               \* len(df) as loaded, line 201 or 209
    max_rows,             \* "Max rows to send (0 = all)"
    sleep_after_seconds,  \* "Wait before fetching log (seconds)"
    pc,                   \* where the script is
    i,                    \* the loop index of line 247
    total,                \* len(df) of line 246
    result,               \* the result dict send_whatsapp is filling
    results,              \* the list of line 242
    progress,             \* what the progress bar shows, <<numerator, denominator>>
    status_area,          \* what the status text shows
    error_area,           \* what st.error shows
    requests,             \* every request handed to the network, in order
    replies,              \* what the network did with each of them, in order
    clock                 \* the UTC clock, in seconds

config == <<client_id, client_secret, template_id, channel_id, columns, loaded,
            max_rows, sleep_after_seconds>>
vars == <<client_id, client_secret, template_id, channel_id, columns, df, loaded,
          max_rows, sleep_after_seconds, pc, i, total, result, results, progress, status_area,
          error_area, requests, replies, clock>>

DelayChoices == {0, 10}
MaxRowsChoices == {0, 1, 2}

NoResult == InitialResult([c \in {} |-> None])

\* The page as rendered, the button not yet clicked.
Init ==
    /\ client_id \in {"", "cid"}
    /\ client_secret \in {"", "s3cr3t"}
    /\ template_id \in {"", "tpl-1"}
    /\ channel_id \in {"", "chn-1"}
    /\ columns \in ColumnSets
    /\ loaded \in 0..MaxRecipients
    /\ df = LoadFrame(columns, loaded)
    /\ max_rows \in MaxRowsChoices
    /\ sleep_after_seconds \in DelayChoices
    /\ pc = "ready"
    /\ i = 0
    /\ total = 0
    /\ result = NoResult
    /\ results = <<>>
    /\ progress = <<0, 1>>
    /\ status_area = ""
    /\ error_area = ""
    /\ requests = <<>>
    /\ replies = <<>>
    /\ clock = 0

\* The button is disabled when df.empty
run_clicked == pc = "ready" /\ Len(df) > 0

-----------------------------------------------------------------------------
(* The run handler, lines 224-262 *)

\* Lines 225-227
StopOnCredentials ==
    /\ run_clicked
    /\ ~CredentialsPresent(client_id, client_secret, template_id, channel_id)
    /\ error_area' = "Client/Template/Channel credentials are missing. Provide them in the sidebar."
    /\ pc' = "stopped"
    /\ UNCHANGED <<config, df, i, total, result, results, progress, status_area,
                   requests, replies, clock>>

\* Lines 229-232 (the message also lists the missing columns, in the order
\* the set gives them)
StopOnColumns ==
    /\ run_clicked
    /\ CredentialsPresent(client_id, client_secret, template_id, channel_id)
    /\ ~validate_dataframe(columns).ok
    /\ error_area' = "Missing required columns"
    /\ pc' = "stopped"
    /\ UNCHANGED <<config, df, i, total, result, results, progress, status_area,
                   requests, replies, clock>>

\* Lines 234-246
StartBatch ==
    /\ run_clicked
    /\ CredentialsPresent(client_id, client_secret, template_id, channel_id)
    /\ validate_dataframe(columns).ok
    /\ df' = CapRows(df, max_rows)
    /\ results' = <<>>
    /\ progress' = <<0, 1>>
    /\ status_area' = ""
    /\ total' = Len(df')
    /\ i' = 0
    /\ pc' = "loop"
    /\ UNCHANGED <<config, result, error_area, requests, replies, clock>>

StatusLine(row, k, n) ==
    "Sending to **" \o Str(RowGet(row, "to_name", PyStr(""))) \o "** ("
        \o Str(RowGet(row, "to_number", PyStr(""))) \o ") [" \o NatToStr(k) \o "/"
        \o NatToStr(n) \o "] ..."

PostRequest(row, k, now) ==
    [method |-> "POST",
     url |-> API_BASE \o POST_URL_PATH,
     path |-> POST_URL_PATH,
     headers |-> generate_auth_headers("POST", POST_URL_PATH, client_id, client_secret, now),
     json |-> BuildPayload(row, template_id, channel_id, IMAGE_URL, IMAGE_FILENAME),
     timeout |-> 60,
     recipient |-> k,
     at |-> now]

GetRequest(broadcast_id, k, now) ==
    [method |-> "GET",
     url |-> API_BASE \o GetUrlPath(broadcast_id),
     path |-> GetUrlPath(broadcast_id),
     headers |-> generate_auth_headers("GET", GetUrlPath(broadcast_id), client_id,
                                       client_secret, now),
     json |-> BuildPayload([c \in {} |-> None], "", "", "", ""),
     timeout |-> 60,
     recipient |-> k,
     at |-> now]

\* Lines 247-248: the next row and its notification
NextRecipient ==
    /\ pc = "loop"
    /\ i < total
    /\ i' = i + 1
    /\ status_area' = StatusLine(df[i'], i', total)
    /\ pc' = "send"
    /\ UNCHANGED <<config, df, total, result, results, progress, error_area, requests,
                   replies, clock>>

\* Line 249 and send_whatsapp up to the POST of line 113 going out
SendPost ==
    /\ pc = "send"
    /\ result' = InitialResult(df[i])
    /\ requests' = Append(requests, PostRequest(df[i], i, clock))
    /\ pc' = "post"
    /\ UNCHANGED <<config, df, i, total, results, progress, status_area, error_area,
                   replies, clock>>

\* An entry of replies: the call returned response r, or raised e.
Returns(r) == [raised |-> FALSE, error |-> "", response |-> r]
Raises(e) == [raised |-> TRUE, error |-> e, response |-> Response(0, "", FALSE, None)]

\* A loop that moves on without waiting for what send_whatsapp returns.
NotAwaited == "loop"

\* Where the script goes when send_whatsapp has nothing left to do.
Returned == "append"

\* The POST returns a response: lines 114-120 or 134-138
PostReturns ==
    /\ pc = "post"
    /\ \E r \in PostResponses :
        LET out == AfterPost(result, r)
        IN /\ result' = out.result
           /\ replies' = Append(replies, Returns(r))
           /\ pc' = IF out.fetch THEN "sleep" ELSE Returned
    /\ UNCHANGED <<config, df, i, total, results, progress, status_area, error_area,
                   requests, clock>>

\* A send_whatsapp without the except clause: the exception ends the script.
Uncaught == "stopped"

\* Where the script goes when a call raised: the except clause of line 140
\* catches it and send_whatsapp returns.
Caught == "append"

\* The POST raises: lines 140-141
PostRaises ==
    /\ pc = "post"
    /\ \E e \in TransportErrors :
        /\ result' = AfterException(result, e)
        /\ replies' = Append(replies, Raises(e))
    /\ pc' = Caught
    /\ UNCHANGED <<config, df, i, total, results, progress, status_area, error_area,
                   requests, clock>>

\* Lines 124-130: the sleep, then the GET going out
SleepThenGet ==
    /\ pc = "sleep"
    /\ clock' = clock + SleepSeconds(sleep_after_seconds)
    /\ requests' = Append(requests, GetRequest(result.broadcast_id, i, clock'))
    /\ pc' = "get"
    /\ UNCHANGED <<config, df, i, total, result, results, progress, status_area,
                   error_area, replies>>

\* The GET returns a response: lines 131-132
GetReturns ==
    /\ pc = "get"
    /\ \E r \in GetResponses :
        /\ result' = AfterGet(result, r)
        /\ replies' = Append(replies, Returns(r))
    /\ pc' = Returned
    /\ UNCHANGED <<config, df, i, total, results, progress, status_area, error_area,
                   requests, clock>>

\* The GET raises: lines 140-141
GetRaises ==
    /\ pc = "get"
    /\ \E e \in TransportErrors :
        /\ result' = AfterException(result, e)
        /\ replies' = Append(replies, Raises(e))
    /\ pc' = Caught
    /\ UNCHANGED <<config, df, i, total, results, progress, status_area, error_area,
                   requests, clock>>

\* A loop that appends one dict it keeps writing to: every entry of the list
\* is that dict, and shows the last recipient.
CollectAliased(list, res) == [k \in 1..(Len(list) + 1) |-> res]

\* A loop that keeps only the sends that went through.
CollectSuccessful(list, res) == IF res.error = None THEN Append(list, res) ELSE list

\* results.append(result)
Collect(list, res) == Append(list, res)

\* The fraction of a loop that counts its rows from 0.
FractionFromZero(k, n) == <<k - 1, n>>

\* i / total of line 260, as a fraction
Fraction(k, n) == <<k, n>>

\* Lines 259-260
AppendResult ==
    /\ pc = "append"
    /\ results' = Collect(results, result)
    /\ progress' = Fraction(i, total)
    /\ pc' = "loop"
    /\ UNCHANGED <<config, df, i, total, result, status_area, error_area, requests,
                   replies, clock>>

\* Line 262, the loop exhausted
Finish ==
    /\ pc = "loop"
    /\ i >= total
    /\ status_area' = "Done."
    /\ pc' = "done"
    /\ UNCHANGED <<config, df, i, total, result, results, progress, error_area,
                   requests, replies, clock>>

Next ==
    \/ StopOnCredentials
    \/ StopOnColumns
    \/ StartBatch
    \/ NextRecipient
    \/ SendPost
    \/ PostReturns
    \/ PostRaises
    \/ SleepThenGet
    \/ GetReturns
    \/ GetRaises
    \/ AppendResult
    \/ Finish

Spec == Init /\ [][Next]_vars

\* A step of the batch once it has started: the script runs on by itself,
\* time.sleep returns and every call returns or raises within its timeout.
BatchStep ==
    \/ NextRecipient
    \/ SendPost
    \/ PostReturns
    \/ PostRaises
    \/ SleepThenGet
    \/ GetReturns
    \/ GetRaises
    \/ AppendResult
    \/ Finish

\* The run handler with the script never halting midway; the click is left
\* to the user.
FairSpec == Spec /\ WF_vars(BatchStep)

-----------------------------------------------------------------------------
(* What the properties below read off the history *)

PostsFor(k) ==
    {j \in 1..Len(requests) : requests[j].method = "POST" /\ requests[j].recipient = k}
GetsFor(k) ==
    {j \in 1..Len(requests) : requests[j].method = "GET" /\ requests[j].recipient = k}

\* Recipient k's POST, resp. GET, has been answered.
PostAnswered(k) == \E j \in PostsFor(k) : j <= Len(replies)
GetAnswered(k) == \E j \in GetsFor(k) : j <= Len(replies)
PostReply(k) == replies[CHOOSE j \in PostsFor(k) : j <= Len(replies)]
GetReply(k) == replies[CHOOSE j \in GetsFor(k) : j <= Len(replies)]

\* The value at body["data"]["id"] of a response, None when there is none.
IdInBody(r) ==
    IF /\ r.parses
       /\ r.json.t = "dict"
       /\ \E a \in 1..Len(r.json.m) :
            /\ r.json.m[a][1] = "data"
            /\ r.json.m[a][2].t = "dict"
            /\ \E b \in 1..Len(r.json.m[a][2].m) : r.json.m[a][2].m[b][1] = "id"
    THEN LET a == CHOOSE a \in 1..Len(r.json.m) : r.json.m[a][1] = "data"
             d == r.json.m[a][2]
         IN d.m[CHOOSE b \in 1..Len(d.m) : d.m[b][1] = "id"][2]
    ELSE None

\* An identifier: a value there is and that is not empty.
IsIdentifier(v) == v # None /\ v # PyStr("")

SendSucceeded(k) ==
    PostAnswered(k) /\ ~PostReply(k).raised
        /\ PostReply(k).response.status_code \in {200, 201, 202}
SendRejected(k) ==
    PostAnswered(k) /\ ~PostReply(k).raised
        /\ PostReply(k).response.status_code \notin {200, 201, 202}
SentWithId(k) == SendSucceeded(k) /\ IsIdentifier(IdInBody(PostReply(k).response))

\* The record of recipient k: collected, or still being filled.
RecordOf(k) == IF k <= Len(results) THEN results[k] ELSE result
\* The recipients send_whatsapp has been called for.
Started ==
    1..(IF pc \in {"ready", "stopped"} THEN 0 ELSE IF pc = "send" THEN i - 1 ELSE i)

\* What the sheet's rows carry, blanks trimmed, as text.
CarriedNames == << "Budi", "Siti", "nan" >>
CarriedNumber(k) == PyStr("628" \o Digit((k \div 100) % 10) \o Digit((k \div 10) % 10)
                              \o Digit(k % 10))
CarriedName(k) == PyStr(CarriedNames[((k - 1) % 3) + 1])

-----------------------------------------------------------------------------
(* C1 *)

\* C1: the completed run has one result per processed recipient, and the
\* k-th result carries the number and the name of the k-th recipient,
\* whatever happened to each send; while the run goes on the results are the
\* records of the recipients done so far, in order.
C1_OneResultPerRecipientInOrder ==
    /\ pc = "done" => Len(results) = Len(df)
    /\ pc = "loop" => Len(results) = i
    /\ pc \in {"send", "post", "sleep", "get", "append"} => Len(results) = i - 1
    /\ \A k \in 1..Len(results) :
        /\ k <= Len(df)
        /\ results[k].to_number = CarriedNumber(k)
        /\ results[k].to_name = CarriedName(k)

\* A finished run of three where the first send raised, the second was
\* rejected and the third was logged.
C1_Witness ==
    /\ pc = "done"
    /\ Len(results) = 3
    /\ results[1].error # None /\ results[1].status_code = None
    /\ results[2].status_code = PyInt(422)
    /\ results[3].log_status_code = PyInt(200)

-----------------------------------------------------------------------------
(* C2 *)

\* C2: an exception raised by a recipient's send or log fetch (a transport
\* error, or the response body not being what the code reads) is in that
\* recipient's error field, the script is not stopped by it, and when the
\* run is done every recipient has had its own POST and has its own result.
C2_FailureIsolation ==
    /\ pc = "stopped" => requests = <<>>
    /\ \A k \in 1..Len(results) :
        /\ PostReply(k).raised => results[k].error = PyStr(PostReply(k).error)
        /\ (GetAnswered(k) /\ GetReply(k).raised) =>
                results[k].error = PyStr(GetReply(k).error)
        /\ (SendSucceeded(k) /\ ~PostReply(k).response.parses) =>
                results[k].error # None
    /\ \A j \in 1..Len(replies) :
        replies[j].raised =>
            \/ pc \notin {"done"}
            \/ \A k \in requests[j].recipient..total :
                   PostsFor(k) # {} /\ k <= Len(results)

\* A finished run of three whose first send raised and whose second log
\* fetch raised, the third recipient sent all the same.
C2_Witness ==
    /\ pc = "done"
    /\ Len(results) = 3
    /\ PostReply(1).raised
    /\ GetAnswered(2) /\ GetReply(2).raised
    /\ results[3].status_code # None

-----------------------------------------------------------------------------
(* C3 *)

PreconditionFails ==
    \/ client_id = ""
    \/ client_secret = ""
    \/ template_id = ""
    \/ channel_id = ""
    \/ "to_number" \notin columns
    \/ "to_name" \notin columns

\* C3: with a credential empty or a required column missing, no request is
\* ever issued and no result is ever produced; the script stops only there,
\* before the first recipient.
C3_PreconditionFailureAborts ==
    /\ PreconditionFails =>
        /\ requests = <<>>
        /\ results = <<>>
        /\ pc \in {"ready", "stopped"}
    /\ pc = "stopped" =>
        /\ PreconditionFails
        /\ i = 0
        /\ error_area # ""

\* A run stopped for the to_number column alone.
C3_Witness ==
    /\ pc = "stopped"
    /\ "to_number" \notin columns
    /\ "to_name" \in columns
    /\ client_id # "" /\ client_secret # "" /\ template_id # "" /\ channel_id # ""

-----------------------------------------------------------------------------
(* C4 *)

\* C4: in every record, collected or being filled, broadcast_id is there
\* only if the send returned 200/201/202 with an identifier in the body, the
\* log fields only if a GET was issued for the recipient; after a send that
\* returned another status all three are absent.
C4_FieldsPresentOnlyWhenEarned ==
    \A k \in Started :
        LET rec == RecordOf(k)
        IN /\ IsIdentifier(rec.broadcast_id) =>
                SentWithId(k) /\ rec.broadcast_id = IdInBody(PostReply(k).response)
           /\ rec.broadcast_id # None => SendSucceeded(k)
           /\ (rec.log_status_code # None \/ rec.log_response # None) =>
                GetsFor(k) # {}
           /\ SendRejected(k) =>
                /\ rec.broadcast_id = None
                /\ rec.log_status_code = None
                /\ rec.log_response = None

\* A rejected send whose body nonetheless carries an identifier.
C4_Witness ==
    \E k \in 1..Len(results) :
        /\ SendRejected(k)
        /\ IsIdentifier(IdInBody(PostReply(k).response))
        /\ results[k].status_code = PyInt(422)

-----------------------------------------------------------------------------
(* C5 *)

LogPath(v) == "/qontak/chat/v1/broadcasts/" \o v.s \o "/whatsapp/log"

\* C5: once a send has returned 200/201/202 with an identifier and the
\* recipient is through, one GET for that identifier has gone out, no
\* earlier than the configured delay after the POST, and the status and
\* body it returned are the record's log fields; with a delay of 0 too.
C5_LogFetchFollowsSuccess ==
    \A k \in 1..Len(results) :
        SentWithId(k) =>
            /\ \E j \in GetsFor(k) :
                /\ requests[j].path = LogPath(IdInBody(PostReply(k).response))
                /\ requests[j].url = "https://api.mekari.com" \o requests[j].path
                /\ \A p \in PostsFor(k) :
                    p < j /\ requests[j].at >= requests[p].at + sleep_after_seconds
            /\ (GetAnswered(k) /\ ~GetReply(k).raised) =>
                /\ results[k].log_status_code = PyInt(GetReply(k).response.status_code)
                /\ results[k].log_response = PyStr(GetReply(k).response.text)

\* With no delay configured, a send with identifier bc_123 whose log came back.
C5_Witness ==
    /\ sleep_after_seconds = 0
    /\ \E k \in 1..Len(results) :
        /\ SentWithId(k)
        /\ results[k].broadcast_id = PyStr("bc_123")
        /\ results[k].log_status_code = PyInt(404)
        /\ \E j \in GetsFor(k) :
            requests[j].path = "/qontak/chat/v1/broadcasts/bc_123/whatsapp/log"

-----------------------------------------------------------------------------
(* C6 *)

\* The send returned 200/201/202 and its body gives no identifier.
SentWithoutId(k) == SendSucceeded(k) /\ ~IsIdentifier(IdInBody(PostReply(k).response))

\* The body is a JSON object whose "data", when there, is an object.
BodyReadable(r) ==
    /\ r.parses
    /\ r.json.t = "dict"
    /\ \A a \in 1..Len(r.json.m) : r.json.m[a][1] = "data" => r.json.m[a][2].t = "dict"

\* C6 as claimed: a send that returned 200/201/202 without an identifier to
\* extract leaves a record with no log step, no broadcast_id and no error.
C6_Original ==
    \A k \in 1..Len(results) :
        SentWithoutId(k) =>
            /\ GetsFor(k) = {}
            /\ results[k].log_status_code = None
            /\ results[k].log_response = None
            /\ ~IsIdentifier(results[k].broadcast_id)
            /\ results[k].error = None

\* C6 amended: a send that returned 200/201/202 without an identifier to
\* extract leaves a record with no log step and no broadcast_id; error is
\* absent when the body is a JSON object whose data.id is missing or empty,
\* and holds the exception text when the body is not JSON or its data is not
\* an object.
C6_MissingIdentifier ==
    \A k \in 1..Len(results) :
        SentWithoutId(k) =>
            /\ GetsFor(k) = {}
            /\ results[k].log_status_code = None
            /\ results[k].log_response = None
            /\ ~IsIdentifier(results[k].broadcast_id)
            /\ results[k].broadcast_id = IdInBody(PostReply(k).response)
            /\ BodyReadable(PostReply(k).response) => results[k].error = None
            /\ ~PostReply(k).response.parses =>
                 results[k].error = PyStr("Expecting value: line 1 column 1 (char 0)")
            /\ (PostReply(k).response.parses /\ ~BodyReadable(PostReply(k).response)) =>
                 results[k].error = PyStr("'NoneType' object has no attribute 'get'")

\* A 202 whose body has no id, ended without error, and after it a 202
\* whose data is null, ended with the exception text.
C6_Witness ==
    /\ Len(results) >= 2
    /\ SentWithoutId(1) /\ results[1].status_code = PyInt(202)
    /\ results[1].send_response = PyStr("{\"data\":{}}")
    /\ results[1].error = None
    /\ SentWithoutId(2) /\ results[2].status_code = PyInt(202)
    /\ results[2].error # None

-----------------------------------------------------------------------------
(* C7 *)

OkStatus(rec) == rec.status_code \in {PyInt(200), PyInt(201), PyInt(202)}
NoLog(rec) == rec.log_status_code = None /\ rec.log_response = None

\* The terminal states a record is in.
TerminalStates(rec) ==
    (IF OkStatus(rec) /\ IsIdentifier(rec.broadcast_id) /\ rec.log_status_code # None
        /\ rec.log_response # None
     THEN {"LOGGED"} ELSE {})
    \cup (IF ~OkStatus(rec) /\ NoLog(rec) /\ rec.error # None THEN {"SEND_FAILED"} ELSE {})
    \cup (IF OkStatus(rec) /\ ~IsIdentifier(rec.broadcast_id) /\ NoLog(rec)
          THEN {"SENT_NO_ID"} ELSE {})
    \cup (IF OkStatus(rec) /\ IsIdentifier(rec.broadcast_id) /\ NoLog(rec)
             /\ rec.error # None
          THEN {"LOG_FAILED"} ELSE {})

\* The state of the recipient the script is at.
RecipientState ==
    CASE pc = "post" -> "PENDING"
      [] pc \in {"sleep", "get"} -> "SENT"
      [] pc = "append" ->
            IF Cardinality(TerminalStates(result)) = 1
            THEN CHOOSE x \in TerminalStates(result) : TRUE
            ELSE "UNKNOWN"
      [] OTHER -> "NONE"

Terminals3 == {"LOGGED", "SEND_FAILED", "SENT_NO_ID"}
Terminals4 == {"LOGGED", "SEND_FAILED", "SENT_NO_ID", "LOG_FAILED"}

Moves(terminals, extra) ==
    { <<"NONE", "PENDING">>, <<"PENDING", "SENT">>, <<"SENT", "LOGGED">>,
      <<"PENDING", "SEND_FAILED">>, <<"PENDING", "SENT_NO_ID">> }
    \cup extra \cup { <<t, "NONE">> : t \in terminals }

\* C7 as claimed: a recipient ends in exactly one of LOGGED, SEND_FAILED and
\* SENT_NO_ID, by PENDING -> SENT -> LOGGED, PENDING -> SEND_FAILED or (the
\* send without identifier) PENDING -> SENT_NO_ID.
C7_Original ==
    [][ /\ \A k \in 1..Len(results') :
             \E t \in Terminals3 : TerminalStates(results'[k]) = {t}
        /\ RecipientState' # RecipientState =>
             <<RecipientState, RecipientState'>> \in Moves(Terminals3, {}) ]_vars

\* C7 amended: a recipient ends in exactly one of LOGGED, SEND_FAILED,
\* SENT_NO_ID and LOG_FAILED (sent with an identifier, the log fetch raised:
\* error set, log fields absent), by PENDING -> SENT -> LOGGED,
\* PENDING -> SENT -> LOG_FAILED, PENDING -> SEND_FAILED or
\* PENDING -> SENT_NO_ID.
C7_TerminalStates ==
    [][ /\ \A k \in 1..Len(results') :
             \E t \in Terminals4 : TerminalStates(results'[k]) = {t}
        /\ RecipientState' # RecipientState =>
             <<RecipientState, RecipientState'>>
                 \in Moves(Terminals4, { <<"SENT", "LOG_FAILED">> }) ]_vars

\* A finished run of three: the first recipient's log fetch raised, the
\* second was sent without an identifier, the third was logged.
C7_Witness ==
    /\ pc = "done"
    /\ Len(results) = 3
    /\ TerminalStates(results[1]) = {"LOG_FAILED"}
    /\ TerminalStates(results[2]) = {"SENT_NO_ID"}
    /\ TerminalStates(results[3]) = {"LOGGED"}
    /\ GetAnswered(1) /\ GetReply(1).raised

-----------------------------------------------------------------------------
(* C8 *)

\* C8: every recipient reached has exactly one POST to the creation path
\* and at most one GET, to the log path of its identifier; a GET goes out
\* only after that recipient's POST was answered 200/201/202 with an
\* identifier; no call is issued twice, answered or not, and a finished run
\* has issued one POST per recipient.
C8_RequestBudget ==
    /\ \A k \in 1..Len(df) :
        /\ Cardinality(PostsFor(k)) = (IF k \in Started THEN 1 ELSE 0)
        /\ Cardinality(GetsFor(k)) <= 1
        /\ \A j \in GetsFor(k) :
            /\ SentWithId(k)
            /\ \A p \in PostsFor(k) : p < j /\ p <= Len(replies)
            /\ requests[j].path = LogPath(IdInBody(PostReply(k).response))
        /\ \A p \in PostsFor(k) :
            requests[p].path = "/qontak/chat/v1/broadcasts/whatsapp/direct"
    /\ \A j \in 1..Len(requests) : requests[j].recipient \in 1..Len(df)
    /\ Len(replies) <= Len(requests)
    /\ Len(requests) <= Len(replies) + 1
    /\ pc = "done" => \A k \in 1..Len(df) : Cardinality(PostsFor(k)) = 1

\* A finished run of three that made four requests: a POST that raised, a
\* POST and its GET, a POST that was rejected.
C8_Witness ==
    /\ pc = "done"
    /\ Len(results) = 3
    /\ Len(requests) = 4
    /\ PostReply(1).raised
    /\ GetsFor(2) # {}
    /\ SendRejected(3)

-----------------------------------------------------------------------------
(* C9 *)

\* C9: when the POST raised, the record has error = the exception text and
\* no status_code, send_response, broadcast_id or log field; when the GET
\* raised, the record has error = the exception text, no log field, and the
\* status_code, send_response and broadcast_id of the send that succeeded.
C9_TransportFailureRecords ==
    \A k \in 1..Len(results) :
        /\ PostReply(k).raised =>
            /\ results[k].error = PyStr(PostReply(k).error)
            /\ results[k].status_code = None
            /\ results[k].send_response = None
            /\ results[k].broadcast_id = None
            /\ results[k].log_status_code = None
            /\ results[k].log_response = None
        /\ (GetAnswered(k) /\ GetReply(k).raised) =>
            /\ results[k].error = PyStr(GetReply(k).error)
            /\ results[k].log_status_code = None
            /\ results[k].log_response = None
            /\ results[k].status_code = PyInt(PostReply(k).response.status_code)
            /\ results[k].send_response = PyStr(PostReply(k).response.text)
            /\ results[k].broadcast_id = IdInBody(PostReply(k).response)
            /\ IsIdentifier(results[k].broadcast_id)

\* A record of a POST that raised and a record of a GET that raised after a
\* 201 with bc_123.
C9_Witness ==
    /\ Len(results) >= 2
    /\ PostReply(1).raised
    /\ GetAnswered(2) /\ GetReply(2).raised
    /\ results[2].status_code = PyInt(201)
    /\ results[2].broadcast_id = PyStr("bc_123")

-----------------------------------------------------------------------------
(* C10 *)

\* The text json.dumps gives for the bodies the API rejects with.
DetailText(r) ==
    CASE r.text = "{\"error\":\"invalid number\"}" -> "{\"error\": \"invalid number\"}"
      [] r.text = "{\"data\":{\"id\":\"bc_123\"}}" -> "{\"data\": {\"id\": \"bc_123\"}}"
      [] r.text = "" -> "{\"raw\": \"\"}"
      [] r.text = "<html lang=\"en\">Bad Gateway</html>" ->
            "{\"raw\": \"<html lang=\\\"en\\\">Bad Gateway</html>\"}"
      [] OTHER -> "?"

RejectedRecord(k, detail) ==
    /\ results[k].status_code = PyInt(PostReply(k).response.status_code)
    /\ results[k].send_response = PyStr(PostReply(k).response.text)
    /\ results[k].error = PyStr(detail)
    /\ results[k].broadcast_id = None

EveryoneProcessed ==
    pc = "done" => \A k \in 1..Len(df) : Cardinality(PostsFor(k)) = 1 /\ k <= Len(results)

\* C10 as claimed: a send answered with a status outside 200/201/202 leaves
\* status_code, send_response = the raw body, broadcast_id absent and error
\* = the parsed body when it parses, the raw text when it does not; the
\* other recipients are processed.
C10_Original ==
    /\ \A k \in 1..Len(results) :
        SendRejected(k) =>
            RejectedRecord(k, IF PostReply(k).response.parses
                              THEN DetailText(PostReply(k).response)
                              ELSE PostReply(k).response.text)
    /\ EveryoneProcessed

\* C10 amended: a send answered with a status outside 200/201/202 leaves
\* status_code, send_response = the raw body, broadcast_id absent and error
\* = the JSON text of the parsed body when it parses, the JSON text of the
\* object {"raw": <raw text>} when it does not; the other recipients are
\* processed.
C10_RemoteRejection ==
    /\ \A k \in 1..Len(results) :
        SendRejected(k) => RejectedRecord(k, DetailText(PostReply(k).response))
    /\ EveryoneProcessed

\* A finished run of three whose second send came back 422 "invalid
\* number", the first and the third logged.
C10_Witness ==
    /\ pc = "done"
    /\ Len(results) = 3
    /\ results[2].status_code = PyInt(422)
    /\ results[2].send_response = PyStr("{\"error\":\"invalid number\"}")
    /\ results[2].error = PyStr("{\"error\": \"invalid number\"}")
    /\ results[2].broadcast_id = None
    /\ results[1].log_status_code = PyInt(200) /\ results[1].error = None
    /\ results[3].log_status_code = PyInt(200) /\ results[3].error = None

-----------------------------------------------------------------------------
(* C11 *)

\* The requests not answered yet.
InFlight == {j \in 1..Len(requests) : j > Len(replies)}

\* C11: at most one request is in flight, and it is the current
\* recipient's; a recipient's POST is in the history only when the results
\* of all recipients before it are collected; its requests come after every
\* request of the recipients before it, and when one of those was sent with
\* an identifier, no earlier than the log delay after that one's POST.
C11_StrictlySequential ==
    /\ Cardinality(InFlight) <= 1
    /\ \A j \in InFlight :
        /\ requests[j].recipient = i
        /\ pc \in {"post", "get"}
        /\ Len(results) = i - 1
    /\ pc \in {"sleep", "get"} => Len(results) = i - 1 /\ PostsFor(i + 1) = {}
    /\ \A j \in 1..Len(requests) :
        /\ Len(results) >= requests[j].recipient - 1
        /\ \A h \in 1..Len(requests) :
            requests[h].recipient < requests[j].recipient =>
                /\ h < j
                /\ h <= Len(replies)
                /\ requests[h].at <= requests[j].at
                /\ (requests[h].method = "POST" /\ SentWithId(requests[h].recipient)) =>
                        requests[j].at >= requests[h].at + sleep_after_seconds

\* The second recipient's POST in flight, issued 10 seconds on, after the
\* first recipient's log delay and log fetch and with its result collected.
C11_Witness ==
    /\ pc = "post"
    /\ i = 2
    /\ sleep_after_seconds = 10
    /\ SentWithId(1)
    /\ Len(results) = 1
    /\ results[1].log_status_code = PyInt(200)
    /\ InFlight = {3}
    /\ requests[3].method = "POST"
    /\ requests[3].at = 10

-----------------------------------------------------------------------------
(* C12 *)

\* C12: a batch that has started (the preconditions passed) reaches Done
\* with one result per recipient, whatever the calls came back with.
C12_BatchCompletes ==
    (pc = "loop") ~> (pc = "done" /\ Len(results) = Len(df) /\ status_area = "Done.")

\* A finished run of three in which every send failed its own way: the POST
\* raised, the body of a 200 was not JSON, the log fetch raised.
C12_Witness ==
    /\ pc = "done"
    /\ status_area = "Done."
    /\ Len(results) = 3
    /\ PostReply(1).raised
    /\ SendSucceeded(2) /\ ~PostReply(2).response.parses
    /\ GetAnswered(3) /\ GetReply(3).raised
    /\ \A k \in 1..3 : results[k].error # None

-----------------------------------------------------------------------------
(* C13 *)

\* The cells of the name column as the sheet has them.
RawNames == << "Budi", "  Siti ", "nan" >>

\* The notification of recipient k of n.
Notice(k, n) ==
    "Sending to **" \o RawNames[((k - 1) % 3) + 1] \o "** (628"
        \o Digit((k \div 100) % 10) \o Digit((k \div 10) % 10) \o Digit(k % 10)
        \o ") [" \o Digit(k) \o "/" \o Digit(n) \o "] ..."

BatchRunning == pc \in {"loop", "send", "post", "sleep", "get", "append", "done"}
FractionIsOne == progress[1] = progress[2]

ProgressState ==
    /\ progress = (IF Len(results) = 0 THEN <<0, 1>> ELSE <<Len(results), total>>)
    /\ BatchRunning => total >= 1 /\ total = Len(df)
    /\ pc \in {"send", "post", "sleep", "get", "append"} => status_area = Notice(i, total)
    /\ FractionIsOne <=> (BatchRunning /\ Len(results) = total)
    /\ status_area = "Done." <=> pc = "done"
    /\ pc = "done" => FractionIsOne

\* C13: the notification "[i/total]" of a recipient is shown before its POST
\* goes out; the fraction moves only when a result is appended, by one
\* recipient, to i/total; its numerator is the number of results collected;
\* total is at least 1 while the batch runs; the fraction is 1 exactly when
\* the last result is in, and Done is shown only then.
C13_ProgressProtocol ==
    [][ /\ ProgressState'
        /\ Len(requests') > Len(requests) /\ requests'[Len(requests')].method = "POST" =>
            /\ status_area = Notice(requests'[Len(requests')].recipient, total)
            /\ status_area' = status_area
        /\ progress' # progress =>
            /\ Len(results') = Len(results) + 1
            /\ progress'[1] = progress[1] + 1
            /\ progress' = <<i, total>>
            /\ pc = "append"
        /\ Len(results') # Len(results) => progress' # progress ]_vars

\* A finished run of three: the bar full, Done shown.
C13_Witness ==
    /\ pc = "done"
    /\ status_area = "Done."
    /\ progress = <<3, 3>>
    /\ Len(results) = 3

-----------------------------------------------------------------------------
(* C14 *)

\* The Authorization header for a canonical string built from the date
\* header d, the method and the path, keyed by secret.
AuthorizationFor(cid, secret, d, method, path) ==
    "hmac username=\"" \o cid \o "\", algorithm=\"hmac-sha256\", headers=\"date request-line\", signature=\"b64(hmac-sha256("
        \o secret \o "|date: " \o d \o "\n" \o method \o " " \o path \o " HTTP/1.1))\""

\* The date string of a clock reading within the first minute.
DateWithinMinute(t) ==
    "Mon, 02 Nov 2026 00:00:" \o Digit((t \div 10) % 10) \o Digit(t % 10) \o " GMT"

SomeSecrets == {"s3cr3t", "0ther"}
SomePaths ==
    { "/qontak/chat/v1/broadcasts/whatsapp/direct",
      "/qontak/chat/v1/broadcasts/bc_123/whatsapp/log",
      "/qontak/chat/v1/broadcasts/bc_124/whatsapp/log" }

\* C14: every request sent carries as Date the date string of the clock
\* read when it was signed, and as Authorization the signature, keyed by
\* the client secret, of the canonical string made of that very Date and of
\* the request's own method and path; signing the same method, path and
\* clock reading with another secret, or another path with the same secret,
\* gives another Authorization, and the Date does not depend on either.
C14_SigningConsistency ==
    /\ \A j \in 1..Len(requests) :
        /\ requests[j].headers.Date = DateWithinMinute(requests[j].at)
        /\ requests[j].headers.Authorization =
             AuthorizationFor(client_id, client_secret, requests[j].headers.Date,
                              requests[j].method, requests[j].path)
        /\ requests[j].url = "https://api.mekari.com" \o requests[j].path
        /\ requests[j].method = "POST" =>
             requests[j].path = "/qontak/chat/v1/broadcasts/whatsapp/direct"
        /\ requests[j].headers.ContentType = "application/json"
    /\ \A method \in {"POST", "GET"}, t \in {0, clock} :
        \A s1, s2 \in SomeSecrets, p1, p2 \in SomePaths :
            LET h1 == generate_auth_headers(method, p1, client_id, s1, t)
                h2 == generate_auth_headers(method, p2, client_id, s2, t)
            IN /\ h1.Date = h2.Date
               /\ (s1 # s2 \/ p1 # p2) => h1.Authorization # h2.Authorization
               /\ h1.Authorization = AuthorizationFor(client_id, s1, h1.Date, method, p1)

\* A POST signed at second 0 and the GET of its log signed at second 10,
\* each with its own Date and its own signature.
C14_Witness ==
    /\ Len(requests) >= 2
    /\ requests[1].method = "POST"
    /\ requests[1].headers.Date = "Mon, 02 Nov 2026 00:00:00 GMT"
    /\ requests[2].method = "GET"
    /\ requests[2].headers.Date = "Mon, 02 Nov 2026 00:00:10 GMT"
    /\ requests[2].headers.Authorization =
         "hmac username=\"cid\", algorithm=\"hmac-sha256\", headers=\"date request-line\", signature=\"b64(hmac-sha256(s3cr3t|date: Mon, 02 Nov 2026 00:00:10 GMT\nGET /qontak/chat/v1/broadcasts/bc_123/whatsapp/log HTTP/1.1))\""

-----------------------------------------------------------------------------
(* C15 *)

\* A record without the two fields copied from the row.
Masked(rec) == [rec EXCEPT !.to_number = None, !.to_name = None]

\* Recipients k and l got the same answers to their requests.
SameAnswers(k, l) ==
    /\ PostReply(k) = PostReply(l)
    /\ GetAnswered(k) <=> GetAnswered(l)
    /\ GetAnswered(k) => GetReply(k) = GetReply(l)

\* Each collected record has the number and name of its own row, its POST
\* carried those and the batch's template and channel, and two recipients
\* with the same answers have, but for number and name, the same record.
OwnInputsOnly ==
    /\ \A k \in 1..Len(results) :
        /\ results[k].to_number = CarriedNumber(k)
        /\ results[k].to_name = CarriedName(k)
        /\ \A p \in PostsFor(k) :
            /\ PyStr(requests[p].json.to_number) = CarriedNumber(k)
            /\ PyStr(requests[p].json.to_name) = CarriedName(k)
            /\ requests[p].json.message_template_id = template_id
            /\ requests[p].json.channel_integration_id = channel_id
    /\ \A k, l \in 1..Len(results) :
        SameAnswers(k, l) => Masked(results[k]) = Masked(results[l])

\* C15: a step that changes the results appends one record and moves the
\* progress bar, nothing else; the records collected before stay as they
\* are; and a record is made of its own row, the batch's configuration and
\* the answers to its own requests.
C15_FrameOfARecipient ==
    [][ /\ Len(results') >= Len(results)
        /\ Len(results') <= Len(results) + 1
        /\ \A k \in 1..Len(results) : results'[k] = results[k]
        /\ results' # results =>
            /\ results'[Len(results')] = result
            /\ UNCHANGED <<config, df, i, total, result, status_area, error_area,
                           requests, replies, clock>>
        /\ OwnInputsOnly' ]_vars

\* Three collected records: the first and the third rejected with the same
\* 422 and alike but for number and name, the second logged in between.
C15_Witness ==
    /\ Len(results) = 3
    /\ SendRejected(1)
    /\ SameAnswers(1, 3)
    /\ results[1] # results[3]
    /\ Masked(results[1]) = Masked(results[3])
    /\ results[2].log_status_code = PyInt(200)
    /\ results[2].error = None

-----------------------------------------------------------------------------
(* C16 *)

\* How many of the sheet's rows a batch with this cap is to process.
Processed == IF max_rows > 0 /\ max_rows < loaded THEN max_rows ELSE loaded

\* C16: a started batch works on the first min(max_rows, n) rows of the
\* n-row sheet when max_rows is above zero and on all n rows when it is
\* zero, in the sheet's order; a row past that gets no request and no
\* record, and the finished batch has sent to every row up to it.
C16_MaxRowsCap ==
    /\ BatchRunning =>
        /\ df = SubSeq(LoadFrame(columns, loaded), 1, Processed)
        /\ total = Processed
    /\ Len(results) <= Processed
    /\ \A k \in 1..Len(results) : results[k].to_number = CarriedNumber(k)
    /\ \A j \in 1..Len(requests) :
        /\ requests[j].recipient <= Processed
        /\ requests[j].method = "POST" =>
            PyStr(requests[j].json.to_number) = CarriedNumber(requests[j].recipient)
        /\ \A h \in 1..j :
            requests[h].recipient <= requests[j].recipient
    /\ pc = "done" =>
        /\ Len(results) = Processed
        /\ \A k \in 1..loaded : (PostsFor(k) # {}) <=> (k <= Processed)

\* A finished batch over a three-row sheet capped at two: two records, the
\* first two rows' numbers, and nothing sent for the third row.
C16_Witness ==
    /\ pc = "done"
    /\ loaded = 3
    /\ max_rows = 2
    /\ Len(results) = 2
    /\ results[1].to_number = PyStr("628001")
    /\ results[2].to_number = PyStr("628002")
    /\ PostsFor(2) # {}
    /\ PostsFor(3) = {}
    /\ GetsFor(3) = {}

-----------------------------------------------------------------------------
(* C17 *)

\* Recipient k's log fetch returned a response, whatever its status.
LogReturned(k) == GetAnswered(k) /\ ~GetReply(k).raised

\* Something raised while recipient k's send, accepted by the API, was being
\* worked on: the body could not be read, or the log fetch raised.
RaisedAfterSend(k) ==
    \/ ~BodyReadable(PostReply(k).response)
    \/ GetAnswered(k) /\ GetReply(k).raised

\* C17: a log fetch that returned, with 200 or any other status, puts its
\* status in log_status_code and its body in log_response, leaves error
\* absent and keeps the send's status_code and broadcast_id; after a send
\* the API accepted, error is set only when something raised.
C17_LogStatusIsNotAnError ==
    \A k \in Started :
        LET rec == RecordOf(k)
        IN /\ LogReturned(k) =>
                /\ rec.log_status_code = PyInt(GetReply(k).response.status_code)
                /\ rec.log_response = PyStr(GetReply(k).response.text)
                /\ rec.error = None
                /\ rec.status_code = PyInt(PostReply(k).response.status_code)
                /\ rec.broadcast_id = IdInBody(PostReply(k).response)
                /\ IsIdentifier(rec.broadcast_id)
           /\ (SendSucceeded(k) /\ rec.error # None) => RaisedAfterSend(k)

\* A collected record whose log fetch came back 404: the 404 and its body
\* recorded, no error, the send's 201 and identifier kept.
C17_Witness ==
    \E k \in 1..Len(results) :
        /\ LogReturned(k)
        /\ GetReply(k).response.status_code = 404
        /\ results[k].log_status_code = PyInt(404)
        /\ results[k].log_response = PyStr(GetReply(k).response.text)
        /\ results[k].error = None
        /\ results[k].status_code = PyInt(201)
        /\ results[k].broadcast_id # None

====
